---- MODULE Spec2Model ----
(***************************************************************************)
(* Model of the VK bundle bot: the wall_reply_new handler of VkService     *)
(* (trigger matching, nickname extraction), ImageProcessingService's       *)
(* createBundle and the upload / reply sequence of #handleComment.         *)
(*                                                                         *)
(* A string is a sequence of one-character strings.  The Cyrillic label    *)
(* of the two patterns is written with the Latin letters n, i, k (upper    *)
(* case N, I, K), the module's character set being ASCII.                  *)
(*                                                                         *)
(* Every step of a handler is the code that runs between two awaits: the   *)
(* awaited promise settles, the synchronous code after it runs (checks of  *)
(* the response, the start of the next call) and the handler suspends at   *)
(* the next await.                                                         *)
(***************************************************************************)
EXTENDS Integers, Sequences, FiniteSets, TLC

\* Number of comment events the event source delivers in Spec; SpecConcurrent
\* delivers one more, so that at least two handlers interleave.
NEvents == 1

\* the invocations of the wall_reply_new handler, one per delivered comment
Events == 1..(NEvents + 1)

\* the comments delivered in Spec
Delivered == 1..NEvents

\* substring(0, 32) in #sanitizeNickname
MaxNickLen == 32

-----------------------------------------------------------------------------
(* Strings *)

null == <<"null">>

Whitespace == {" ", "\n", "\t"}

\* the character class [<>{}()/\\] of #sanitizeNickname
Forbidden == {"<", ">", "{", "}", "(", ")", "/", "\\"}

\* case folding of the /i flag, on the letters of the label
Lower(c) ==
  CASE c = "N" -> "n"
    [] c = "I" -> "i"
    [] c = "K" -> "k"
    [] OTHER -> c

Label == <<"n", "i", "k">>

Min(a, b) == IF a <= b THEN a ELSE b

\* String.prototype.substring(from, to) with 0-based from and exclusive to
Substring(s, from, to) == SubSeq(s, from + 1, Min(to, Len(s)))

\* String.prototype.trim
RECURSIVE TrimLeft(_)
TrimLeft(s) ==
  IF s # <<>> /\ Head(s) \in Whitespace THEN TrimLeft(Tail(s)) ELSE s

RECURSIVE TrimRight(_)
TrimRight(s) ==
  IF s # <<>> /\ s[Len(s)] \in Whitespace
    THEN TrimRight(SubSeq(s, 1, Len(s) - 1))
    ELSE s

Trim(s) == TrimRight(TrimLeft(s))

\* String.prototype.replace(/[...]/g, '')
RECURSIVE RemoveForbidden(_)
RemoveForbidden(s) ==
  IF s = <<>> THEN <<>>
  ELSE IF Head(s) \in Forbidden THEN RemoveForbidden(Tail(s))
  ELSE <<Head(s)>> \o RemoveForbidden(Tail(s))

\* the forbidden characters removed and the ends trimmed, the length kept
sanitizeNicknameUntruncated(nickname) == Trim(RemoveForbidden(nickname))

sanitizeNickname(nickname) ==
  Substring(Trim(RemoveForbidden(nickname)), 0, MaxNickLen)

\* the label matches at 1-based position i, ignoring case
LabelAt(text, i) ==
  /\ i + Len(Label) - 1 <= Len(text)
  /\ \A j \in 1..Len(Label) : Lower(text[i + j - 1]) = Label[j]

\* end (1-based, exclusive) of the run of \s starting at position i
RECURSIVE SkipSpace(_, _)
SkipSpace(text, i) ==
  IF i <= Len(text) /\ text[i] \in Whitespace THEN SkipSpace(text, i + 1) ELSE i

\* (.*?)(?:\n|$) from position i: the characters up to the next newline or
\* the end of the text
RECURSIVE UpToLineEnd(_, _)
UpToLineEnd(text, i) ==
  IF i > Len(text) \/ text[i] = "\n" THEN <<>>
  ELSE <<text[i]>> \o UpToLineEnd(text, i + 1)

\* positions where /nik:\s*(.*?)(?:\n|$)/i matches
Pattern1At(text) ==
  {i \in 1..Len(text) :
     /\ LabelAt(text, i)
     /\ i + Len(Label) <= Len(text)
     /\ text[i + Len(Label)] = ":"}

\* positions where /nik\s+(.*?)(?:\n|$)/i matches
Pattern2At(text) ==
  {i \in 1..Len(text) :
     /\ LabelAt(text, i)
     /\ i + Len(Label) <= Len(text)
     /\ text[i + Len(Label)] \in Whitespace}

SetMin(S) == CHOOSE m \in S : \A x \in S : m <= x

\* match[1] of the leftmost match of a pattern whose label ends skip
\* characters before the \s run
Capture(text, at, skip) ==
  UpToLineEnd(text, SkipSpace(text, SetMin(at) + skip))

\* the matches of the two patterns, in the order of the patterns array:
\* each is <<>> (no match) or <<match[1]>>
Matches(text) ==
  << IF Pattern1At(text) = {} THEN <<>>
       ELSE <<Capture(text, Pattern1At(text), Len(Label) + 1)>>,
     IF Pattern2At(text) = {} THEN <<>>
       ELSE <<Capture(text, Pattern2At(text), Len(Label))>> >>

extractNickname(text) ==
  LET m == Matches(text)
      first == IF m[1] # <<>> THEN m[1] ELSE m[2]
  IN  IF first = <<>> THEN null
      ELSE LET nickname == Trim(first[1])
           IN  IF nickname # <<>> THEN sanitizeNickname(nickname) ELSE null

\* JavaScript truthiness of a string | null | undefined value
Truthy(s) == s # null /\ s # <<>>

-----------------------------------------------------------------------------
(* The event source and the configuration *)

undefined == <<>>

\* context.objectId of the delivered comments: the post commented on (an
\* optional number, always present in a wall comment)
ObjectIds == {<<123>>, <<124>>}

\* values of TARGET_POST_ID in the environment: unset, or a post id
Configs == {undefined, <<"123">>}

\* context.text of the delivered comments: no text, a text without the
\* label, a request, a request whose value is only forbidden characters, a
\* label without a value
Texts ==
  { <<>>,
    <<"h", "i">>,
    <<"N", "i", "k", ":", " ", "a", "<", "b">>,
    <<"n", "i", "k", " ", "(", ")">>,
    <<"n", "i", "k", ":", " ">> }

\* context.ownerId: the owner of the watched wall
OwnerId == -7

\* doc.owner_id of a saved document: the account the uploads are made with
UploaderId == 42

\* the comment contexts the event source may deliver as event e; the
\* comment id identifies the event
Contexts(e) ==
  [objectId : ObjectIds, text : Texts, ownerId : {OwnerId}, id : {e}]

NoContext == [objectId |-> undefined, text |-> <<>>, ownerId |-> 0, id |-> 0]

\* x || '' on a configuration value
OrEmpty(x) == IF x = undefined THEN "" ELSE x[1]

\* context.objectId?.toString() || ''
PostIdOf(context) ==
  IF context.objectId = undefined THEN "" ELSE ToString(context.objectId[1])

\* a condition that leaves the post id out
TargetsAnyPost(context, target) == Truthy(context.text)

\* the condition of the handler: context.text && postId === targetPostId
TargetsWatchedPost(context, target) ==
  Truthy(context.text) /\ PostIdOf(context) = OrEmpty(target)

-----------------------------------------------------------------------------
(* The handler as a sequence of awaits *)

\* One await of the handler.  k: "delay" (this.delay()), "remote" (a call
\* of the VK API or an HTTP transfer), "body" (reading the body of an HTTP
\* response), "local" (image composition, archive packing).  fn: the
\* function holding the await.  art: the artifact or reply it works on.
\* req: the fields of the result the code after the await requires, throwing
\* when one is missing.  aw: the call is awaited before the code goes on.
Await(k, op, fn, art, req) ==
  [k |-> k, op |-> op, fn |-> fn, art |-> art, req |-> req, aw |-> TRUE]

delay(fn, art) == Await("delay", "delay", fn, art, {})

\* ImageProcessingService.createBundle: createAvatar (template check, then
\* composition), createCoverVk, createCoverX
createBundle ==
  << Await("local", "metadata", "createBundle", "avatar", {}),
     Await("local", "composite", "createBundle", "avatar", {}),
     Await("local", "composite", "createBundle", "coverVk", {}),
     Await("local", "composite", "createBundle", "coverX", {}) >>

\* uploadPhoto with the await of the upload-server request missing
uploadPhotoNotAwaited(art) ==
  << delay("uploadPhoto", art),
     [Await("remote", "photos.getWallUploadServer", "uploadPhoto", art,
            {"upload_url"}) EXCEPT !.aw = FALSE],
     Await("remote", "fetch", "uploadPhoto", art, {"ok"}),
     Await("body", "json", "uploadPhoto", art, {"photo", "server", "hash"}),
     delay("uploadPhoto", art),
     Await("remote", "photos.saveWallPhoto", "uploadPhoto", art, {}) >>

uploadPhoto(art) ==
  << delay("uploadPhoto", art),
     Await("remote", "photos.getWallUploadServer", "uploadPhoto", art,
           {"upload_url"}),
     Await("remote", "fetch", "uploadPhoto", art, {"ok"}),
     Await("body", "json", "uploadPhoto", art, {"photo", "server", "hash"}),
     delay("uploadPhoto", art),
     Await("remote", "photos.saveWallPhoto", "uploadPhoto", art, {}) >>

\* uploadDocument saving without a pacing delay
uploadDocumentUnpaced(art) ==
  << delay("uploadDocument", art),
     Await("remote", "docs.getMessagesUploadServer", "uploadDocument", art,
           {"upload_url"}),
     Await("remote", "fetch", "uploadDocument", art, {"ok"}),
     Await("body", "json", "uploadDocument", art, {}),
     Await("remote", "docs.save", "uploadDocument", art, {}) >>

uploadDocument(art) ==
  << delay("uploadDocument", art),
     Await("remote", "docs.getMessagesUploadServer", "uploadDocument", art,
           {"upload_url"}),
     Await("remote", "fetch", "uploadDocument", art, {"ok"}),
     Await("body", "json", "uploadDocument", art, {}),
     delay("uploadDocument", art),
     Await("remote", "docs.save", "uploadDocument", art, {}) >>

createZipArchive ==
  << Await("local", "createZipArchive", "handleComment", "zip", {}) >>

\* this.#vkUser.api.wall.createComment of reply #1 and reply #2
createComment(art) ==
  << Await("remote", "wall.createComment", "handleComment", art, {}) >>

\* the try block with the avatar document uploaded after the archive is
\* packed
handleCommentAvatarDocLate ==
  createBundle
  \o uploadPhoto("avatar")
  \o <<delay("handleComment", "-")>>
  \o uploadPhoto("coverVk")
  \o <<delay("handleComment", "-")>>
  \o uploadPhoto("coverX")
  \o uploadDocument("coverVk")
  \o <<delay("handleComment", "-")>>
  \o uploadDocument("coverX")
  \o <<delay("handleComment", "reply1")>>
  \o createComment("reply1")
  \o createZipArchive
  \o uploadDocument("avatar")
  \o <<delay("handleComment", "-")>>
  \o uploadDocument("zip")
  \o <<delay("handleComment", "reply2")>>
  \o createComment("reply2")

\* the try block with the archive packed and uploaded before reply #1
handleCommentArchiveFirst ==
  createBundle
  \o uploadPhoto("avatar")
  \o <<delay("handleComment", "-")>>
  \o uploadPhoto("coverVk")
  \o <<delay("handleComment", "-")>>
  \o uploadPhoto("coverX")
  \o uploadDocument("coverVk")
  \o <<delay("handleComment", "-")>>
  \o uploadDocument("coverX")
  \o <<delay("handleComment", "-")>>
  \o uploadDocument("avatar")
  \o createZipArchive
  \o uploadDocument("zip")
  \o <<delay("handleComment", "reply1")>>
  \o createComment("reply1")
  \o <<delay("handleComment", "reply2")>>
  \o createComment("reply2")

\* the try block of #handleComment
handleComment ==
  createBundle
  \o uploadPhoto("avatar")
  \o <<delay("handleComment", "-")>>
  \o uploadPhoto("coverVk")
  \o <<delay("handleComment", "-")>>
  \o uploadPhoto("coverX")
  \o uploadDocument("coverVk")
  \o <<delay("handleComment", "-")>>
  \o uploadDocument("coverX")
  \o <<delay("handleComment", "-")>>
  \o uploadDocument("avatar")
  \o <<delay("handleComment", "reply1")>>
  \o createComment("reply1")
  \o createZipArchive
  \o uploadDocument("zip")
  \o <<delay("handleComment", "reply2")>>
  \o createComment("reply2")

\* #sendReply: this.#vk.api.wall.createComment with the fallback message
sendReply ==
  << Await("remote", "wall.createComment", "sendReply", "fallback", {}) >>

\* a catch block that only logs
handleCommentCatchSilent == <<>>

\* the catch block of #handleComment: the awaits it makes
handleCommentCatch == sendReply

\* a wall_reply_new handler whose catch block is missing
handlerWithoutCatch == TRUE

\* the catch block of the wall_reply_new handler: TRUE when the error leaves
\* the handler
handlerRethrows == FALSE

\* console.error calls made while an error thrown at an await travels to
\* the catch block of #handleComment, that block's own included
ErrorLog(ins) ==
  (IF ins.fn = "createBundle" /\ ins.op = "metadata"
     THEN <<"createAvatar">> ELSE <<>>)
  \o (IF ins.fn \in {"createBundle", "uploadPhoto", "uploadDocument"}
        THEN <<ins.fn>> ELSE <<>>)
  \o <<"handleComment">>

\* An error is <<"thrown", op, art>>, the error the operation op on art
\* rejected with, or <<"new", op, art>>, an Error the code created after
\* that operation.

\* the error an await ends with: the one the operation threw, or the new
\* Error of the check after it
Raised(ins, threw) ==
  <<IF threw THEN "thrown" ELSE "new", ins.op, ins.art>>

\* createAvatar: the template check throws a new Error, the composition its
\* own error
createAvatarCatch(error) ==
  IF error[2] = "metadata" THEN <<"new", "createAvatar", "avatar">> ELSE error

\* a catch block of createBundle that throws an Error of its own
createBundleCatchWrapping(error) == <<"new", "createBundle", "-">>

\* the catch block of createBundle: throw error
createBundleCatch(error) == error

\* the function of ImageProcessingService composing the image art
Composition(art) ==
  CASE art = "avatar" -> "createAvatar"
    [] art = "coverVk" -> "createCoverVk"
    [] art = "coverX" -> "createCoverX"

\* The way of the error of a failed await up to the catch block that ends
\* it: the functions it leaves, in order, and the error each one throws.
Propagation(ins, threw) ==
  LET error == Raised(ins, threw)
  IN  IF ins.fn = "createBundle"
        THEN LET thrownBy == IF ins.art = "avatar" THEN createAvatarCatch(error)
                             ELSE error
             IN  << [by |-> Composition(ins.art), error |-> thrownBy],
                    [by |-> "createBundle", error |-> createBundleCatch(thrownBy)] >>
      ELSE IF ins.fn = "handleComment" THEN <<[by |-> ins.op, error |-> error]>>
      ELSE <<[by |-> ins.fn, error |-> error]>>

\* the images composed so far, by artifact
Composed(nickname, tr) ==
  [art \in {a \in {"avatar", "coverVk", "coverX"} :
              \E i \in 1..Len(tr) :
                /\ tr[i].ev = "ok" /\ tr[i].op = "composite" /\ tr[i].art = a}
     |-> <<"png", art, nickname>>]

-----------------------------------------------------------------------------
(* Results of the awaited operations *)

Returned(has) == [t |-> "ret", has |-> has]

Thrown == [t |-> "throw", has |-> {}]

\* trace entries: ev is "call" (the operation is started), "ok" (it
\* returned and the code accepted the result), "fail" (it threw, or the
\* code rejected the result), "delay" (a pacing delay completed)
Entry(ev, ins, has) ==
  [ev |-> ev, op |-> ins.op, fn |-> ins.fn, art |-> ins.art, has |-> has]

\* the transfer of a document upload returned a file token
HasFile(tr, art) ==
  \E i \in 1..Len(tr) :
    /\ tr[i].ev = "ok" /\ tr[i].op = "json"
    /\ tr[i].fn = "uploadDocument" /\ tr[i].art = art
    /\ "file" \in tr[i].has

\* what an operation may answer.  The save and post calls answer with a
\* well-formed result or throw; docs.save called without a file token is
\* refused by the API.
Responses(ins, tr) ==
  CASE ins.op \in {"photos.getWallUploadServer", "docs.getMessagesUploadServer"}
         -> {Returned({"upload_url"}), Returned({}), Thrown}
    [] ins.op = "fetch"
         -> {Returned({"ok"}), Returned({}), Thrown}
    [] ins.op = "json" /\ ins.fn = "uploadPhoto"
         -> {Returned(h) : h \in SUBSET {"photo", "server", "hash"}} \cup {Thrown}
    [] ins.op = "json" /\ ins.fn = "uploadDocument"
         -> {Returned({"file"}), Returned({}), Thrown}
    [] ins.op = "photos.saveWallPhoto"
         -> {Returned({"id"}), Thrown}
    [] ins.op = "docs.save"
         -> IF HasFile(tr, ins.art) THEN {Returned({"doc"}), Thrown} ELSE {Thrown}
    [] OTHER -> {Returned({}), Thrown}

\* the await ends in an exception: the operation threw, or the check after
\* it found a required field missing
Fails(ins, r) == r.t = "throw" \/ ~(ins.req \subseteq r.has)

-----------------------------------------------------------------------------
(* State *)

VARIABLES
  config,       \* TARGET_POST_ID of the environment
  st,           \* per event: "idle", "try", "catch" or "done"
  ip,           \* per event: index of the await the handler is suspended at
  ctx,          \* per event: the comment context delivered
  extracted,    \* per event: <<>>, or <<result of #extractNickname>> once called
  trace,        \* per event: the operations started and settled, in order
  log,          \* per event: the console.error calls, in order
  outstanding,  \* per event: the remote calls in flight
  saved,        \* per event: the objects stored by the save calls
  posted,       \* per event: the comments created
  escaped,      \* per event: an error left the wall_reply_new handler
  thrown,       \* per event: the errors thrown, by the function they left
  bundle,       \* per event: <<>>, or <<the bundle createBundle returned>>
  hung,         \* per event: the remote call awaited will never return
  arg,          \* the arguments of the function under evaluation, or <<>>
  res           \* <<>>, or the values the function under evaluation returned

vars ==
  <<config, st, ip, ctx, extracted, trace, log, outstanding, saved, posted,
    escaped, thrown, bundle, hung, arg, res>>

\* the block chosen by a failure flag kept on the service, shared by the
\* handlers
ScriptSharedFlag(e) ==
  IF \E f \in Events : st[f] = "catch" THEN handleCommentCatch ELSE handleComment

\* the block the handler of event e is executing
Script(e) == IF st[e] = "catch" THEN handleCommentCatch ELSE handleComment

Running(e) == st[e] \in {"try", "catch"} /\ ip[e] <= Len(Script(e))

\* the await the handler of event e is suspended at
Current(e) == Script(e)[ip[e]]

\* The code from instruction i of a block up to the next await: a delay
\* suspends the handler; an operation is started and, when awaited, suspends
\* the handler.  The result is the position reached, the trace and the
\* remote calls in flight.
RECURSIVE Proceed(_, _, _, _)
Proceed(script, i, tr, out) ==
  IF i > Len(script) THEN [ip |-> i, trace |-> tr, out |-> out]
  ELSE LET ins == script[i]
           tr1 == Append(tr, Entry("call", ins, {}))
           out1 == IF ins.k = "remote" THEN out \cup {ins} ELSE out
       IN  IF ins.k = "delay" THEN [ip |-> i, trace |-> tr, out |-> out]
           ELSE IF ins.aw THEN [ip |-> i, trace |-> tr1, out |-> out1]
           ELSE Proceed(script, i + 1, tr1, out1)

\* the object a save call of event e stores: owner and id are the remote's
Stored(e, ins) ==
  [fn |-> ins.fn, art |-> ins.art, owner_id |-> UploaderId,
   id |-> <<e, ins.fn, ins.art>>]

\* the reference built from the photo saved for the preview of art
DocRefFromPreview(e, art) ==
  LET d == {x \in saved[e] : x.fn = "uploadPhoto" /\ x.art = art}
  IN  IF d = {} THEN <<"doc", undefined>>
      ELSE LET x == CHOOSE y \in d : TRUE IN <<"doc", x.owner_id, x.id>>

\* `doc${x.doc.owner_id}_${x.doc.id}` of the document saved for art
DocRef(e, art) ==
  LET d == {x \in saved[e] : x.fn = "uploadDocument" /\ x.art = art}
  IN  IF d = {} THEN <<"doc", undefined>>
      ELSE LET x == CHOOSE y \in d : TRUE IN <<"doc", x.owner_id, x.id>>

\* the attachments of the replies
Attachments(e, art) ==
  CASE art = "reply1" -> <<DocRef(e, "coverVk"), DocRef(e, "coverX")>>
    [] art = "reply2" -> <<DocRef(e, "avatar"), DocRef(e, "zip")>>
    [] OTHER -> <<>>

\* the comment a createComment call of event e creates
Comment(e, ins) ==
  [api |-> IF ins.fn = "sendReply" THEN "vk" ELSE "vkUser",
   owner_id |-> ctx[e].ownerId,
   post_id |-> ctx[e].objectId,
   reply_to_comment |-> ctx[e].id,
   message |-> ins.art,
   attachments |-> Attachments(e, ins.art)]

\* the service after its construction: no comment delivered yet
Constructed ==
  /\ config \in Configs
  /\ st = [e \in Events |-> "idle"]
  /\ ip = [e \in Events |-> 0]
  /\ ctx = [e \in Events |-> NoContext]
  /\ extracted = [e \in Events |-> <<>>]
  /\ trace = [e \in Events |-> <<>>]
  /\ log = [e \in Events |-> <<>>]
  /\ outstanding = [e \in Events |-> {}]
  /\ saved = [e \in Events |-> {}]
  /\ posted = [e \in Events |-> <<>>]
  /\ escaped = [e \in Events |-> FALSE]
  /\ thrown = [e \in Events |-> <<>>]
  /\ bundle = [e \in Events |-> <<>>]
  /\ hung = [e \in Events |-> FALSE]

Init ==
  /\ Constructed
  /\ arg = <<>>
  /\ res = <<>>

\* the handler of event e goes on from instruction i of block s
Goto(e, s, block, i, tr, out) ==
  LET p == Proceed(block, i, tr, out)
  IN  /\ st' = [st EXCEPT ![e] = IF p.ip > Len(block) THEN "done" ELSE s]
      /\ ip' = [ip EXCEPT ![e] = p.ip]
      /\ trace' = [trace EXCEPT ![e] = p.trace]
      /\ outstanding' = [outstanding EXCEPT ![e] = p.out]

\* a test that lets every string through, the empty one too
StartsPipelineUnlessNull(nickname) == nickname # null

\* if (nickname): #handleComment is called
StartsPipeline(nickname) == Truthy(nickname)

\* The wall_reply_new handler up to its first await: the comment is matched
\* against the watched post, the nickname is extracted and #handleComment
\* starts the bundle.
Deliver(e, c) ==
  /\ st[e] = "idle"
  /\ ctx' = [ctx EXCEPT ![e] = c]
  /\ IF TargetsWatchedPost(c, config)
       THEN LET nickname == extractNickname(c.text)
            IN  /\ extracted' = [extracted EXCEPT ![e] = <<nickname>>]
                /\ IF StartsPipeline(nickname)
                     THEN Goto(e, "try", handleComment, 1, <<>>, {})
                     ELSE /\ st' = [st EXCEPT ![e] = "done"]
                          /\ UNCHANGED <<ip, trace, outstanding>>
       ELSE /\ st' = [st EXCEPT ![e] = "done"]
            /\ UNCHANGED <<extracted, ip, trace, outstanding>>
  /\ UNCHANGED <<config, log, saved, posted, escaped, thrown, bundle, hung,
                 arg, res>>

\* a comment of the event source arrives
Arrive(e) == \E c \in Contexts(e) : Deliver(e, c)

\* this.delay() resolves
DelayDone(e) ==
  /\ Running(e)
  /\ Current(e).k = "delay"
  /\ Goto(e, st[e], Script(e), ip[e] + 1,
          Append(trace[e], Entry("delay", Current(e), {})), outstanding[e])
  /\ UNCHANGED <<config, ctx, extracted, log, saved, posted, escaped, thrown,
                 bundle, hung, arg, res>>

\* The operation ins of event e settles with r.  When the handler awaits
\* it, the handler goes on: to the next instruction, to the catch block of
\* #handleComment, or out of #handleComment into the catch block of the
\* wall_reply_new handler.
Settle(e, ins, r) ==
  LET awaited == Running(e) /\ Current(e) = ins
      failed == Fails(ins, r)
      tr1 == Append(trace[e], Entry(IF failed THEN "fail" ELSE "ok", ins, r.has))
      out1 == outstanding[e] \ {ins}
  IN  /\ saved' = [saved EXCEPT ![e] =
                     IF ~failed /\ ins.op \in {"photos.saveWallPhoto", "docs.save"}
                       THEN @ \cup {Stored(e, ins)} ELSE @]
      /\ posted' = [posted EXCEPT ![e] =
                      IF ~failed /\ ins.op = "wall.createComment"
                        THEN Append(@, Comment(e, ins)) ELSE @]
      /\ thrown' = [thrown EXCEPT ![e] =
                      IF awaited /\ failed
                        THEN @ \o Propagation(ins, r.t = "throw") ELSE @]
      /\ bundle' = [bundle EXCEPT ![e] =
                      IF awaited /\ ~failed /\ ins = createBundle[Len(createBundle)]
                        THEN <<Composed(extracted[e][1], tr1)>> ELSE @]
      /\ IF ~awaited
           THEN /\ trace' = [trace EXCEPT ![e] = tr1]
                /\ outstanding' = [outstanding EXCEPT ![e] = out1]
                /\ UNCHANGED <<st, ip, log, escaped>>
         ELSE IF ~failed
           THEN /\ Goto(e, st[e], Script(e), ip[e] + 1, tr1, out1)
                /\ UNCHANGED <<log, escaped>>
         ELSE IF st[e] = "try"
           THEN /\ Goto(e, "catch", handleCommentCatch, 1, tr1, out1)
                /\ log' = [log EXCEPT ![e] = @ \o ErrorLog(ins)]
                /\ UNCHANGED escaped
         ELSE /\ st' = [st EXCEPT ![e] = "done"]
              /\ trace' = [trace EXCEPT ![e] = tr1]
              /\ outstanding' = [outstanding EXCEPT ![e] = out1]
              /\ log' = [log EXCEPT ![e] = Append(@, "wall_reply_new")]
              /\ escaped' = [escaped EXCEPT ![e] = handlerRethrows]
              /\ UNCHANGED ip
      /\ UNCHANGED <<config, ctx, extracted, hung, arg, res>>

\* an image composition, the archive packing or the reading of a response
\* body ends
LocalDone(e) ==
  /\ Running(e)
  /\ Current(e).k \in {"local", "body"}
  /\ \E r \in Responses(Current(e), trace[e]) : Settle(e, Current(e), r)

\* a remote call of the try block of #handleComment returns
RemoteDone(e) ==
  \E ins \in outstanding[e] :
    /\ ins.fn # "sendReply"
    /\ \E r \in Responses(ins, trace[e]) : Settle(e, ins, r)

\* the fallback reply of the catch block returns
FallbackDone(e) ==
  \E ins \in outstanding[e] :
    /\ ins.fn = "sendReply"
    /\ \E r \in Responses(ins, trace[e]) : Settle(e, ins, r)

\* a step of the handler of event e
Step(e) ==
  \/ Arrive(e)
  \/ DelayDone(e)
  \/ LocalDone(e)
  \/ RemoteDone(e)
  \/ FallbackDone(e)

Next == \E e \in Delivered : Step(e)

Spec == Init /\ [][Next]_vars

\* every comment is delivered: the handlers interleave at their awaits
NextConcurrent == \E e \in Events : Step(e)

SpecConcurrent == Init /\ [][NextConcurrent]_vars

\* The remote call the handler of event e awaits is one that never returns:
\* neither the VK client nor fetch is given a timeout.
Hang(e) ==
  /\ ~hung[e]
  /\ Running(e)
  /\ Current(e).k = "remote"
  /\ Current(e) \in outstanding[e]
  /\ hung' = [hung EXCEPT ![e] = TRUE]
  /\ UNCHANGED <<config, st, ip, ctx, extracted, trace, log, outstanding, saved,
                 posted, escaped, thrown, bundle, arg, res>>

\* a step of a handler whose awaited call is given up after a time
StepWithTimeout(e) == Step(e)

\* a step of the handler of event e: none while the call it awaits hangs
StepUnlessHung(e) == ~hung[e] /\ Step(e)

NextLive == \E e \in Events : StepUnlessHung(e) \/ Hang(e)

\* The event loop runs every continuation that is ready: a timer that has
\* expired, an operation that has settled.  A remote call returns unless it
\* is one that hangs.
Fairness == \A e \in Events : WF_vars(StepUnlessHung(e))

SpecLive == Init /\ [][NextLive]_vars /\ Fairness

-----------------------------------------------------------------------------
(* Properties *)

Idx(tr) == 1..Len(tr)

RemoteOps ==
  {"photos.getWallUploadServer", "docs.getMessagesUploadServer", "fetch",
   "photos.saveWallPhoto", "docs.save", "wall.createComment"}

Is(x, ev, op, fn, art) == x.ev = ev /\ x.op = op /\ x.fn = fn /\ x.art = art

\* entry i of tr is preceded by the given entry
Before(tr, i, ev, op, fn, art) ==
  \E j \in 1..(i - 1) : Is(tr[j], ev, op, fn, art)

PhotoUploaded(tr, i, art) ==
  Before(tr, i, "ok", "photos.saveWallPhoto", "uploadPhoto", art)

DocUploaded(tr, i, art) ==
  Before(tr, i, "ok", "docs.save", "uploadDocument", art)

Replied(tr, i, art) ==
  Before(tr, i, "ok", "wall.createComment", "handleComment", art)

Packed(tr, i) ==
  Before(tr, i, "ok", "createZipArchive", "handleComment", "zip")

\* the steps of the try block that failed, and the fallback replies started
TryFailures(tr) == {i \in Idx(tr) : tr[i].ev = "fail" /\ tr[i].fn # "sendReply"}

FallbackCalls(tr) == {i \in Idx(tr) : tr[i].ev = "call" /\ tr[i].fn = "sendReply"}

\* C1: once a step of the sequence has failed, nothing but the fallback
\* reply follows in that event, and exactly one fallback reply is attempted;
\* an event without a failed step attempts no fallback reply.
C1_FailureAbortsWithOneFallback ==
  \A e \in Events :
    LET tr == trace[e]
    IN  /\ \A i \in TryFailures(tr) :
             \A j \in Idx(tr) : j > i => tr[j].fn = "sendReply"
        /\ TryFailures(tr) # {} => Cardinality(FallbackCalls(tr)) = 1
        /\ TryFailures(tr) = {} => FallbackCalls(tr) = {}

\* the second preview upload failed and the event has ended
C1_Witness ==
  \E e \in Events :
    /\ st[e] = "done"
    /\ \E i \in Idx(trace[e]) :
         /\ trace[e][i].ev = "fail"
         /\ trace[e][i].fn = "uploadPhoto"
         /\ trace[e][i].art = "coverVk"

\* C2 as stated: the avatar document upload is started only after reply #1
\* is posted and the archive is packed; before reply #1 only the two covers
\* are uploaded as documents.
C2_AvatarDocAfterReply1 ==
  \A e \in Events :
    LET tr == trace[e]
    IN  \A i \in Idx(tr) :
          /\ tr[i].fn = "uploadDocument" /\ tr[i].art = "avatar"
               => Replied(tr, i, "reply1") /\ Packed(tr, i)
          /\ tr[i].fn = "uploadDocument" /\ ~Replied(tr, i, "reply1")
               => tr[i].art \in {"coverVk", "coverX"}

\* C2 amended: the avatar document upload is started only after both cover
\* documents are uploaded, and it completes before reply #1 is started;
\* before reply #1 is posted the documents uploaded are those of the three
\* images; the archive document upload starts after reply #1 and the
\* packing.
C2_AvatarDocBeforeReply1 ==
  \A e \in Events :
    LET tr == trace[e]
    IN  \A i \in Idx(tr) :
          /\ tr[i].fn = "uploadDocument" /\ tr[i].art = "avatar"
               => DocUploaded(tr, i, "coverVk") /\ DocUploaded(tr, i, "coverX")
          /\ tr[i].fn = "handleComment" /\ tr[i].art = "reply1"
               /\ tr[i].op = "wall.createComment"
               => DocUploaded(tr, i, "avatar")
          /\ tr[i].fn = "uploadDocument" /\ ~Replied(tr, i, "reply1")
               => tr[i].art \in {"coverVk", "coverX", "avatar"}
          /\ tr[i].fn = "uploadDocument" /\ tr[i].art = "zip"
               => Replied(tr, i, "reply1") /\ Packed(tr, i)

\* reply #1 is posted
C2_Witness ==
  \E e \in Events : Replied(trace[e], Len(trace[e]) + 1, "reply1")

\* C3: the three preview uploads complete before any document upload
\* starts; both cover documents are uploaded before reply #1 is posted;
\* reply #1 is posted before the archive is packed; the archive is packed
\* before its upload starts; reply #2 is posted only after reply #1 and the
\* avatar and archive document uploads.
C3_StepOrder ==
  \A e \in Events :
    LET tr == trace[e]
    IN  \A i \in Idx(tr) :
          /\ tr[i].fn = "uploadDocument"
               => \A a \in {"avatar", "coverVk", "coverX"} : PhotoUploaded(tr, i, a)
          /\ tr[i].op = "wall.createComment" /\ tr[i].art = "reply1"
               => DocUploaded(tr, i, "coverVk") /\ DocUploaded(tr, i, "coverX")
          /\ tr[i].op = "createZipArchive" => Replied(tr, i, "reply1")
          /\ tr[i].fn = "uploadDocument" /\ tr[i].art = "zip" => Packed(tr, i)
          /\ tr[i].op = "wall.createComment" /\ tr[i].art = "reply2"
               => /\ Replied(tr, i, "reply1")
                  /\ DocUploaded(tr, i, "avatar")
                  /\ DocUploaded(tr, i, "zip")

\* reply #2 is posted
C3_Witness ==
  \E e \in Events : Replied(trace[e], Len(trace[e]) + 1, "reply2")

Posted(e, art) == \E i \in Idx(posted[e]) : posted[e][i].message = art

\* C4 as stated: an event never ends with reply #1 posted and reply #2 not
\* posted.
C4_Reply1ImpliesReply2 ==
  \A e \in Events : st[e] = "done" /\ Posted(e, "reply1") => Posted(e, "reply2")

\* C4 amended: an event ends with reply #1 posted and reply #2 not posted
\* only when a step after reply #1 (the packing, the archive upload or
\* reply #2) failed, and then the fallback reply has been attempted: such an
\* event never ends as a success.
C4_PartialRepliesEndInFallback ==
  \A e \in Events :
    LET tr == trace[e]
    IN  st[e] = "done" /\ Posted(e, "reply1") /\ ~Posted(e, "reply2")
          => /\ \E i \in TryFailures(tr) :
                  /\ Replied(tr, i, "reply1")
                  /\ tr[i].art \in {"zip", "reply2"}
             /\ FallbackCalls(tr) # {}

\* an event has ended with reply #1 posted and reply #2 not posted
C4_Witness ==
  \E e \in Events : st[e] = "done" /\ Posted(e, "reply1") /\ ~Posted(e, "reply2")

RemoteCall(x) == x.ev = "call" /\ x.op \in RemoteOps

\* C5 as stated: every remote call, the transfers and the fallback reply
\* included, is immediately preceded by a pacing delay.
C5_EveryRemoteCallPaced ==
  \A e \in Events :
    LET tr == trace[e]
    IN  \A i \in Idx(tr) : RemoteCall(tr[i]) => i > 1 /\ tr[i - 1].ev = "delay"

\* C5 amended: every upload-server request, every save call and each of
\* reply #1 and reply #2 is immediately preceded by a pacing delay; a
\* transfer follows the answer of its upload-server request, and the
\* fallback reply follows the failure, without a delay.
C5_ApiCallsPaced ==
  \A e \in Events :
    LET tr == trace[e]
    IN  \A i \in Idx(tr) :
          RemoteCall(tr[i]) =>
            /\ i > 1
            /\ IF tr[i].op = "fetch"
                 THEN /\ tr[i - 1].ev = "ok"
                      /\ tr[i - 1].fn = tr[i].fn /\ tr[i - 1].art = tr[i].art
                      /\ "upload_url" \in tr[i - 1].has
               ELSE IF tr[i].fn = "sendReply"
                 THEN tr[i - 1].ev = "fail"
               ELSE tr[i - 1].ev = "delay"

\* a fallback reply has been started in an event that made a transfer
C5_Witness ==
  \E e \in Events :
    /\ FallbackCalls(trace[e]) # {}
    /\ \E i \in Idx(trace[e]) : Is(trace[e][i], "call", "fetch", "uploadDocument", "zip")

\* C6: the save call of a preview upload is made only after a transfer
\* answer holding photo, server and hash; the save call of a document
\* upload only after a transfer answer holding file; a transfer only after
\* an upload-server answer holding the upload URL.
C6_ResponseValidatedBeforeNextCall ==
  \A e \in Events :
    LET tr == trace[e]
        Answered(i, op, fields) ==
          \E j \in 1..(i - 1) :
            /\ Is(tr[j], "ok", op, tr[i].fn, tr[i].art)
            /\ fields \subseteq tr[j].has
    IN  \A i \in Idx(tr) :
          /\ Is(tr[i], "call", "photos.saveWallPhoto", "uploadPhoto", tr[i].art)
               => Answered(i, "json", {"photo", "server", "hash"})
          /\ Is(tr[i], "call", "docs.save", "uploadDocument", tr[i].art)
               => Answered(i, "json", {"file"})
          /\ Is(tr[i], "call", "fetch", "uploadPhoto", tr[i].art)
               => Answered(i, "photos.getWallUploadServer", {"upload_url"})
          /\ Is(tr[i], "call", "fetch", "uploadDocument", tr[i].art)
               => Answered(i, "docs.getMessagesUploadServer", {"upload_url"})

\* C7: at most one remote call of an event is in flight, and a remote call
\* is started only after every earlier remote call of the event has
\* returned.
C7_OneRemoteCallAtATime ==
  \A e \in Events :
    LET tr == trace[e]
    IN  /\ Cardinality(outstanding[e]) <= 1
        /\ \A i \in Idx(tr) : RemoteCall(tr[i]) =>
             \A j \in 1..(i - 1) : RemoteCall(tr[j]) =>
               \E k \in (j + 1)..(i - 1) :
                 /\ tr[k].ev \in {"ok", "fail"}
                 /\ tr[k].op = tr[j].op /\ tr[k].fn = tr[j].fn
                 /\ tr[k].art = tr[j].art

\* a remote call is in flight after an earlier one has returned
C7_Witness ==
  \E e \in Events :
    /\ Cardinality(outstanding[e]) = 1
    /\ \E i \in Idx(trace[e]) :
         trace[e][i].ev = "ok" /\ trace[e][i].op \in RemoteOps

\* #handleComment was started for event e
Started(e) == extracted[e] # <<>> /\ Truthy(extracted[e][1])

\* The trace of one handler running alone: the blocks of #handleComment
\* executed in sequence on the answers rs (the settled entries of a trace,
\* in order), from instruction i of the try block (try) or the catch block.
RECURSIVE Alone(_, _, _, _)
Alone(try, i, tr, rs) ==
  LET block == IF try THEN handleComment ELSE handleCommentCatch
      p == Proceed(block, i, tr, {})
  IN  IF p.ip > Len(block) \/ rs = <<>> THEN p.trace
      ELSE LET x == Head(rs)
               tr1 == Append(p.trace, Entry(x.ev, block[p.ip], x.has))
           IN  IF x.ev # "fail" THEN Alone(try, p.ip + 1, tr1, Tail(rs))
               ELSE IF try THEN Alone(FALSE, 1, tr1, Tail(rs))
               ELSE tr1

Settled(x) == x.ev # "call"

\* the messages of the replies that the trace records as posted
PostedIn(tr) ==
  LET ok == SelectSeq(tr, LAMBDA x : x.ev = "ok" /\ x.op = "wall.createComment")
  IN  [i \in 1..Len(ok) |-> ok[i].art]

\* C8: whatever the interleaving with the other events, the operations of
\* an event are those of its handler running alone on the same answers, its
\* replies are those its own trace records, in its own thread and with the
\* documents of its own uploads, a fallback reply follows only a failure of
\* the event itself, and a handler that has not ended can always take its
\* next step.
C8_EventsIndependent ==
  \A e \in Events :
    /\ Started(e) => trace[e] = Alone(TRUE, 1, <<>>, SelectSeq(trace[e], Settled))
    /\ ~Started(e) => trace[e] = <<>>
    /\ [i \in 1..Len(posted[e]) |-> posted[e][i].message] = PostedIn(trace[e])
    /\ \A i \in Idx(posted[e]) :
         /\ posted[e][i].reply_to_comment = ctx[e].id
         /\ \A k \in Idx(posted[e][i].attachments) :
              posted[e][i].attachments[k][3][1] = e
    /\ FallbackCalls(trace[e]) # {} => TryFailures(trace[e]) # {}
    /\ st[e] \in {"try", "catch"} =>
         ENABLED (DelayDone(e) \/ LocalDone(e) \/ RemoteDone(e) \/ FallbackDone(e))

\* one event is sending its fallback reply while another is past reply #1
C8_Witness ==
  \E e, f \in Events :
    /\ e # f
    /\ st[e] = "catch"
    /\ st[f] = "try" /\ Posted(f, "reply1")

\* C9: when the fallback reply fails, the event ends there: nothing follows
\* the failure, the fallback was attempted once, no remote call is in
\* flight, the failure is logged by the wall_reply_new handler and no error
\* leaves that handler.
C9_FallbackFailureSwallowed ==
  \A e \in Events :
    LET tr == trace[e]
    IN  \A i \in Idx(tr) :
          tr[i].ev = "fail" /\ tr[i].fn = "sendReply" =>
            /\ i = Len(tr)
            /\ Cardinality(FallbackCalls(tr)) = 1
            /\ st[e] = "done"
            /\ outstanding[e] = {}
            /\ log[e] # <<>> /\ log[e][Len(log[e])] = "wall_reply_new"
            /\ ~escaped[e]

\* the fallback reply of an event has failed
C9_Witness ==
  \E e \in Events : \E i \in Idx(trace[e]) :
    trace[e][i].ev = "fail" /\ trace[e][i].fn = "sendReply"

\* event e was delivered and nothing was done for it
NoOp(e) ==
  /\ st[e] = "done"
  /\ extracted[e] = <<>>
  /\ trace[e] = <<>>
  /\ posted[e] = <<>>
  /\ saved[e] = {}

\* C10 as stated: a delivered comment whose post id differs from the target
\* is a no-op, and one whose post id equals the target proceeds to the
\* extraction.
C10_PostIdDecides ==
  \A e \in Events :
    st[e] # "idle" =>
      IF PostIdOf(ctx[e]) = OrEmpty(config) THEN extracted[e] # <<>> ELSE NoOp(e)

\* C10 amended: a delivered comment whose post id differs from the target
\* is a no-op; one whose post id equals the target proceeds to the
\* extraction when its text is not empty, and is a no-op too when it is.
C10_PostIdAndTextDecide ==
  \A e \in Events :
    st[e] # "idle" =>
      IF PostIdOf(ctx[e]) = OrEmpty(config) /\ ctx[e].text # <<>>
        THEN extracted[e] # <<>>
        ELSE NoOp(e)

\* a comment asking for a nickname under another post was delivered
C10_Witness ==
  \E e \in Events :
    /\ st[e] = "done"
    /\ PostIdOf(ctx[e]) = "124" /\ OrEmpty(config) = "123"
    /\ Truthy(extractNickname(ctx[e].text))

-----------------------------------------------------------------------------
(* #extractNickname on its own *)

\* the pieces the comment texts are put together from: the label in lower
\* and upper case, the colon, white space, a letter and a forbidden character
Tokens ==
  { <<"n", "i", "k">>, <<"N", "I", "K">>, <<":">>, <<" ">>, <<"\n">>,
    <<"a">>, <<"<">> }

\* number of pieces of a comment text
MaxTokens == 4

RECURSIVE Concat(_)
Concat(ts) == IF ts = <<>> THEN <<>> ELSE Head(ts) \o Concat(Tail(ts))

\* "Nik: Foo<Bar>" and "no label here"
LabelledText ==
  <<"N", "i", "k", ":", " ", "F", "o", "o", "<", "B", "a", "r", ">">>

UnlabelledText ==
  <<"n", "o", " ", "l", "a", "b", "e", "l", " ", "h", "e", "r", "e">>

\* the texts #extractNickname is evaluated on
ExtractTexts ==
  {Concat(ts) : ts \in UNION {[1..n -> Tokens] : n \in 0..MaxTokens}}
    \cup Texts \cup {LabelledText, UnlabelledText}

\* the handler variables stay as constructed while a function is evaluated
HandlerIdle ==
  UNCHANGED <<config, st, ip, ctx, extracted, trace, log, outstanding, saved,
              posted, escaped, thrown, bundle, hung>>

InitExtract ==
  /\ Constructed
  /\ arg \in {<<text>> : text \in ExtractTexts}
  /\ res = <<>>

\* this.#extractNickname(text)
ExtractNickname ==
  /\ res = <<>>
  /\ res' = <<extractNickname(arg[1])>>
  /\ UNCHANGED arg
  /\ HandlerIdle

SpecExtract == InitExtract /\ [][ExtractNickname]_vars

\* the value captured by the first of the two patterns that matches text,
\* or <<>> when neither matches
FirstMatch(text) ==
  IF Pattern1At(text) # {} THEN Matches(text)[1]
  ELSE IF Pattern2At(text) # {} THEN Matches(text)[2]
  ELSE <<>>

\* C11: for every comment text, extraction returns the trimmed, sanitized
\* value of the first pattern that matches, or null when no pattern matches
\* or the sanitized value is empty; "Nik: Foo<Bar>" gives "FooBar" and a
\* text without the label gives null.
C11_NullWhenSanitizedEmpty ==
  res # <<>> =>
    LET text == arg[1]
        m == FirstMatch(text)
        value == IF m = <<>> THEN <<>> ELSE sanitizeNickname(Trim(m[1]))
    IN  /\ res[1] = IF value = <<>> THEN null ELSE value
        /\ text = LabelledText => res[1] = <<"F", "o", "o", "B", "a", "r">>
        /\ text = UnlabelledText => res[1] = null

-----------------------------------------------------------------------------
(* #sanitizeNickname on its own *)

\* the characters at the ends of the nicknames: white space, a forbidden
\* character and a letter
NickChars == {" ", "(", "b"}

\* number of characters after the run of letters of a nickname
MaxTail == 3

\* a run of n letters
Fill(n) == [i \in 1..n |-> "a"]

\* The nicknames #sanitizeNickname is evaluated on: at most one character,
\* a run of letters that is empty or ends around position 32, and a tail.
Nicknames ==
  {head \o Fill(n) \o tail :
     head \in {<<>>} \cup {<<c>> : c \in NickChars},
     n \in {0} \cup ((MaxNickLen - 3)..(MaxNickLen + 1)),
     tail \in UNION {[1..k -> NickChars] : k \in 0..MaxTail}}

InitSanitize ==
  /\ Constructed
  /\ arg \in {<<nickname>> : nickname \in Nicknames}
  /\ res = <<>>

\* this.#sanitizeNickname(nickname), and then this.#sanitizeNickname of
\* what it returned
SanitizeNickname ==
  /\ Len(res) < 2
  /\ res' = Append(res, sanitizeNickname(IF res = <<>> THEN arg[1] ELSE res[1]))
  /\ UNCHANGED arg
  /\ HandlerIdle

SpecSanitize == InitSanitize /\ [][SanitizeNickname]_vars

\* C12: sanitization is idempotent: sanitizing the result of a sanitization
\* returns that result, for every nickname, those longer than 32 characters
\* and those with white space around position 32 included.
C12_SanitizeIdempotent ==
  Len(res) = 2 => res[2] = res[1]

\* C13: the result of a sanitization contains none of the characters
\* < > { } ( ) / \ and is at most 32 characters long.
C13_SanitizedCleanAndShort ==
  \A k \in 1..Len(res) :
    /\ \A i \in 1..Len(res[k]) : res[k][i] \notin Forbidden
    /\ Len(res[k]) <= 32

\* a nickname with a forbidden character and more than 32 others has been
\* sanitized to 32 characters
C13_Witness ==
  /\ res # <<>>
  /\ \E i \in 1..Len(arg[1]) : arg[1][i] \in Forbidden
  /\ Len(arg[1]) > 33
  /\ Len(res[1]) = 32

-----------------------------------------------------------------------------
(* calculateFontSize on its own *)

\* A ratio is written in thousandths and a scale in hundredths, so that the
\* products of calculateFontSize are exact: Round(n, d) is Math.round(n / d),
\* the nearest integer, a half rounded up.
Round(n, d) == (2 * n + d) \div (2 * d)

Max(a, b) == IF a >= b THEN a ELSE b

\* the table with the entry for length 12 that the code has commented out
breakpointsWithLength12 ==
  << [length |-> 1, scale |-> 100], [length |-> 3, scale |-> 98],
     [length |-> 4, scale |-> 96], [length |-> 6, scale |-> 84],
     [length |-> 8, scale |-> 64], [length |-> 10, scale |-> 50],
     [length |-> 12, scale |-> 42],
     [length |-> 14, scale |-> 44], [length |-> 18, scale |-> 36],
     [length |-> 20, scale |-> 30], [length |-> 22, scale |-> 28],
     [length |-> 26, scale |-> 24], [length |-> 30, scale |-> 20],
     [length |-> 32, scale |-> 18] >>

breakpoints ==
  << [length |-> 1, scale |-> 100], [length |-> 3, scale |-> 98],
     [length |-> 4, scale |-> 96], [length |-> 6, scale |-> 84],
     [length |-> 8, scale |-> 64], [length |-> 10, scale |-> 50],
     [length |-> 14, scale |-> 44], [length |-> 18, scale |-> 36],
     [length |-> 20, scale |-> 30], [length |-> 22, scale |-> 28],
     [length |-> 26, scale |-> 24], [length |-> 30, scale |-> 20],
     [length |-> 32, scale |-> 18] >>

\* nickname.length < breakpoint.length
FitsBelow(nickname, breakpoint) == Len(nickname) < breakpoint.length

\* nickname.length <= breakpoint.length
Fits(nickname, breakpoint) == Len(nickname) <= breakpoint.length

\* the loop over the breakpoints from index i: the scale of the first
\* breakpoint the nickname fits, or the scale set before the loop
RECURSIVE ScaleFrom(_, _, _)
ScaleFrom(i, nickname, scale) ==
  IF i > Len(breakpoints) THEN scale
  ELSE IF Fits(nickname, breakpoints[i]) THEN breakpoints[i].scale
  ELSE ScaleFrom(i + 1, nickname, scale)

\* let scale = breakpoints[breakpoints.length - 1].scale; for (...) {...}
ScaleOf(nickname) ==
  ScaleFrom(1, nickname, breakpoints[Len(breakpoints)].scale)

\* the size without the floor of the minimal size
calculateFontSizeUnfloored(nickname, width, ratios) ==
  Round(Round(width * ratios.baseFontRatio, 1000) * ScaleOf(nickname), 100)

calculateFontSize(nickname, width, ratios) ==
  LET baseSize == Round(width * ratios.baseFontRatio, 1000)
      minSize == Round(width * ratios.minFontRatio, 1000)
      size == Round(baseSize * ScaleOf(nickname), 100)
  IN  Max(size, minSize)

\* the ratios calculateFontSize is called with, and its default ones
DefaultRatios == [baseFontRatio |-> 75, minFontRatio |-> 32]

AvatarRatios == [baseFontRatio |-> 280, minFontRatio |-> 64]

CoverVkRatios == [baseFontRatio |-> 120, minFontRatio |-> 50]

CoverXRatios == [baseFontRatio |-> 112, minFontRatio |-> 60]

Ratios == {DefaultRatios, AvatarRatios, CoverVkRatios, CoverXRatios}

\* containerWidth of createAvatar and width of the covers
AvatarWidth == 840

CoverWidth == 1920

\* the widths up to MaxWidth, and those of the code
MaxWidth == 40

Widths == (1..MaxWidth) \cup {AvatarWidth, CoverWidth}

\* the nicknames have 0 to MaxLength characters
MaxLength == 34

Lengths == 0..MaxLength

InitFontSize ==
  /\ Constructed
  /\ arg \in {<<Fill(n), width, ratios>> :
                n \in Lengths, width \in Widths, ratios \in Ratios}
  /\ res = <<>>

\* this.calculateFontSize(nickname, width, ratios)
CalculateFontSize ==
  /\ res = <<>>
  /\ res' = <<calculateFontSize(arg[1], arg[2], arg[3])>>
  /\ UNCHANGED arg
  /\ HandlerIdle

SpecFontSize == InitFontSize /\ [][CalculateFontSize]_vars

\* m is n / d rounded to the nearest integer, a half rounded up
IsRounded(m, n, d) == 2 * d * m - d <= 2 * n /\ 2 * n < 2 * d * m + d

\* C14: for every length (0 and those beyond the last breakpoint included),
\* width and ratio profile, the font size is at least round(W * minFontRatio).
C14_AtLeastMinSize ==
  res # <<>> =>
    \E m \in 0..arg[2] :
      /\ IsRounded(m, arg[2] * arg[3].minFontRatio, 1000)
      /\ res[1] >= m

\* a nickname longer than the last breakpoint got the minimal size, above
\* the scaled base size
C14_Witness ==
  /\ res # <<>>
  /\ Len(arg[1]) > 32
  /\ IsRounded(res[1], arg[2] * arg[3].minFontRatio, 1000)
  /\ res[1] > calculateFontSizeUnfloored(arg[1], arg[2], arg[3])

\* the selection of the scale, for two nicknames
InitScale ==
  /\ Constructed
  /\ arg \in {<<Fill(n1), Fill(n2)>> : n1 \in Lengths, n2 \in Lengths}
  /\ res = <<>>

\* lines 62-68 of calculateFontSize, for the first nickname and then for
\* the second
SelectScale ==
  /\ Len(res) < 2
  /\ res' = Append(res, ScaleOf(arg[Len(res) + 1]))
  /\ UNCHANGED arg
  /\ HandlerIdle

SpecScale == InitScale /\ [][SelectScale]_vars

\* C15: of two nicknames the shorter one gets a scale at least as large as
\* the longer one, for lengths from 0 to beyond the last breakpoint; the
\* table is strictly increasing by length and every scale is in (0, 1].
C15_ScaleMonotonic ==
  /\ Len(res) = 2 /\ Len(arg[1]) < Len(arg[2]) => res[1] >= res[2]
  /\ \A i \in 1..Len(breakpoints) :
       /\ 0 < breakpoints[i].scale /\ breakpoints[i].scale <= 100
       /\ i > 1 => breakpoints[i - 1].length < breakpoints[i].length

\* the scales of a nickname between two breakpoints and of one beyond the
\* last breakpoint have been selected, and they differ
C15_Witness ==
  /\ Len(res) = 2
  /\ Len(arg[1]) = 11
  /\ Len(arg[2]) > 32
  /\ res[1] > res[2]

\* the scale of the first breakpoint whose length is at least n, or of the
\* last breakpoint
FirstAtLeast(n) ==
  LET at == {i \in 1..Len(breakpoints) : breakpoints[i].length >= n}
  IN  IF at = {} THEN breakpoints[Len(breakpoints)].scale
      ELSE breakpoints[CHOOSE i \in at : \A j \in at : i <= j].scale

\* C16: the font size is max(round(round(W * base) * scale), round(W * min))
\* with the scale of the first breakpoint whose length is at least L, or of
\* the last one; the empty nickname gets the first breakpoint; a nickname of
\* 3 characters with the avatar ratios and width 840 gets 230.
C16_FontSizeFormula ==
  res # <<>> =>
    LET n == Len(arg[1])
        W == arg[2]
    IN  /\ \E baseSize, minSize \in 0..W :
             /\ IsRounded(baseSize, W * arg[3].baseFontRatio, 1000)
             /\ IsRounded(minSize, W * arg[3].minFontRatio, 1000)
             /\ \E size \in 0..baseSize :
                  /\ IsRounded(size, baseSize * FirstAtLeast(n), 100)
                  /\ res[1] = Max(size, minSize)
        /\ n = 0 => \E size \in 0..W :
                      /\ IsRounded(size, W * arg[3].baseFontRatio, 1000)
                      /\ res[1] = size
        /\ n = 3 /\ W = 840 /\ arg[3] = AvatarRatios => res[1] = 230

\* the font size of a nickname of 3 characters on the avatar has been
\* calculated
C16_Witness ==
  /\ res # <<>>
  /\ arg = <<Fill(3), AvatarWidth, AvatarRatios>>

-----------------------------------------------------------------------------
(* calculateTextPosition on its own *)

\* the position kept between minY and maxY
calculateTextPositionClamped(fontSize, cfg) ==
  LET d == cfg.maxFontSize - cfg.minFontSize
      p == Round(cfg.maxY * d
                   - (cfg.maxY - cfg.minY) * (cfg.maxFontSize - fontSize), d)
  IN  Max(cfg.minY, Min(cfg.maxY, p))

\* maxY - ((maxY - minY) * (maxFontSize - fontSize)) / (maxFontSize -
\* minFontSize), rounded: the quotient is kept exact by rounding the whole
\* over the common denominator
calculateTextPosition(fontSize, cfg) ==
  LET d == cfg.maxFontSize - cfg.minFontSize
  IN  Round(cfg.maxY * d
              - (cfg.maxY - cfg.minY) * (cfg.maxFontSize - fontSize), d)

\* the configurations calculateTextPosition is called with, and its default
DefaultPosition ==
  [maxY |-> 420, minY |-> 360, maxFontSize |-> 144, minFontSize |-> 64]

CoverVkPosition ==
  [maxY |-> 410, minY |-> 360, maxFontSize |-> 144, minFontSize |-> 64]

CoverXPosition ==
  [maxY |-> 460, minY |-> 430, maxFontSize |-> 144, minFontSize |-> 64]

Positions == {DefaultPosition, CoverVkPosition, CoverXPosition}

\* the font sizes up to MaxFontSize, and those the covers calculate
MaxFontSize == 240

FontSizes ==
  (0..MaxFontSize)
    \cup {calculateFontSize(Fill(n), CoverWidth, ratios) :
            n \in Lengths, ratios \in {CoverVkRatios, CoverXRatios}}

InitTextPosition ==
  /\ Constructed
  /\ arg \in {<<fontSize, cfg>> : fontSize \in FontSizes, cfg \in Positions}
  /\ res = <<>>

\* this.calculateTextPosition(fontSize, config)
CalculateTextPosition ==
  /\ res = <<>>
  /\ res' = <<calculateTextPosition(arg[1], arg[2])>>
  /\ UNCHANGED arg
  /\ HandlerIdle

SpecTextPosition == InitTextPosition /\ [][CalculateTextPosition]_vars

\* the position is the linear formula rounded, maxY at maxFontSize and minY
\* at minFontSize
PositionLinear ==
  LET fontSize == arg[1]
      cfg == arg[2]
      d == cfg.maxFontSize - cfg.minFontSize
  IN  /\ IsRounded(res[1],
                   cfg.maxY * d
                     - (cfg.maxY - cfg.minY) * (cfg.maxFontSize - fontSize), d)
      /\ fontSize = cfg.maxFontSize => res[1] = cfg.maxY
      /\ fontSize = cfg.minFontSize => res[1] = cfg.minY

-----------------------------------------------------------------------------
(* createBundle and the replies *)

\* entry x of a trace is about the composition of the image art
Composes(x, art) ==
  x.fn = "createBundle" /\ x.op = "composite" /\ x.art = art

\* C18: createBundle composes the avatar, the VK cover and the X cover in
\* that order and fails fast: once a composition has failed no later one is
\* started, createBundle throws the error that composition threw and
\* returns no bundle; a bundle is
\* returned only when the three compositions succeeded, and it holds the
\* three images.
C18_BundleFailsFast ==
  \A e \in Events :
    LET tr == trace[e]
        order == <<"avatar", "coverVk", "coverX">>
    IN  /\ \A i \in Idx(tr) : \A k \in 1..3 :
             tr[i].ev = "call" /\ Composes(tr[i], order[k]) =>
               \A j \in 1..(k - 1) :
                 \E h \in 1..(i - 1) : tr[h].ev = "ok" /\ Composes(tr[h], order[j])
        /\ \A i \in Idx(tr) :
             tr[i].ev = "fail" /\ tr[i].fn = "createBundle" =>
               /\ \A h \in Idx(tr) :
                    h > i => ~(tr[h].ev = "call" /\ tr[h].fn = "createBundle")
               /\ bundle[e] = <<>>
               /\ Len(thrown[e]) >= 2
               /\ thrown[e][1].by = Composition(tr[i].art)
               /\ thrown[e][2] = [by |-> "createBundle", error |-> thrown[e][1].error]
               /\ thrown[e][1].error[1] = "thrown" =>
                    thrown[e][1].error = <<"thrown", tr[i].op, tr[i].art>>
        /\ bundle[e] # <<>> =>
             /\ \A k \in 1..3 :
                  \E i \in Idx(tr) : tr[i].ev = "ok" /\ Composes(tr[i], order[k])
             /\ bundle[e][1] =
                  [art \in {"avatar", "coverVk", "coverX"} |->
                     <<"png", art, extracted[e][1]>>]

\* the composition of the VK cover failed after the avatar was composed,
\* and the event has ended
C18_Witness ==
  \E e \in Events :
    /\ st[e] = "done"
    /\ \E i, j \in Idx(trace[e]) :
         /\ i < j
         /\ trace[e][i].ev = "ok" /\ Composes(trace[e][i], "avatar")
         /\ trace[e][j].ev = "fail" /\ Composes(trace[e][j], "coverVk")

\* ref is the reference of the document that the document upload of art of
\* event e saved
RefersTo(ref, e, art) ==
  \E d \in saved[e] :
    /\ d.fn = "uploadDocument" /\ d.art = art
    /\ d.id = <<e, "uploadDocument", art>>
    /\ ref = <<"doc", d.owner_id, d.id>>

\* C19: reply #1 carries two references, the VK cover document and the X
\* cover document in that order, and reply #2 two, the avatar document and
\* the archive document; each is built from the owner and id that the
\* document upload of that artifact returned in the same event, and both
\* replies go to the owner, post and comment of the triggering comment.
C19_RepliesReferToOwnDocuments ==
  \A e \in Events : \A i \in Idx(posted[e]) :
    LET c == posted[e][i]
    IN  /\ c.message = "reply1" =>
             /\ Len(c.attachments) = 2
             /\ RefersTo(c.attachments[1], e, "coverVk")
             /\ RefersTo(c.attachments[2], e, "coverX")
        /\ c.message = "reply2" =>
             /\ Len(c.attachments) = 2
             /\ RefersTo(c.attachments[1], e, "avatar")
             /\ RefersTo(c.attachments[2], e, "zip")
        /\ c.message \in {"reply1", "reply2"} =>
             /\ c.owner_id = ctx[e].ownerId
             /\ c.post_id = ctx[e].objectId
             /\ c.reply_to_comment = ctx[e].id
             /\ ctx[e].id = e

\* one event has posted reply #2 and another, processed at the same time,
\* reply #1
C19_Witness ==
  \E e, f \in Events :
    /\ e # f
    /\ Posted(e, "reply2")
    /\ Posted(f, "reply1")
    /\ \E i \in Idx(posted[e]) : posted[e][i].message = "reply2"
    /\ \E i \in Idx(posted[f]) : posted[f][i].message = "reply1"

-----------------------------------------------------------------------------
(* Termination *)

\* Every matched event whose calls return ends, and has then posted
\* reply #2 or attempted the fallback reply; this holds for the other events
\* when the call of one event hangs.
Terminates ==
  /\ \A e \in Events : Started(e) ~> (st[e] = "done" \/ hung[e])
  /\ [](\A e \in Events :
          Started(e) /\ st[e] = "done" =>
            Posted(e, "reply2") \/ FallbackCalls(trace[e]) # {})

\* the handler of an event whose call hangs takes no step any more and
\* does not end
Blocked ==
  /\ [](\A e \in Events : hung[e] => st[e] # "done")
  /\ [][\A e \in Events :
          hung[e] => hung'[e] /\ st'[e] = st[e] /\ trace'[e] = trace[e]]_vars

\* C20 as stated: when every delay and remote call returns, every matched
\* event ends with reply #2 posted or the fallback attempted; when a remote
\* call never returns, the event never ends and no fallback reply is ever
\* attempted for it, and the other events go on.
C20_HungCallNoFallback ==
  /\ Terminates
  /\ Blocked
  /\ [](\A e \in Events : hung[e] => FallbackCalls(trace[e]) = {})

\* C20 amended: as above, but the call that never returns may be the
\* fallback reply itself: no fallback reply is attempted when the call that
\* hangs is one of the try block, and none after the one that hangs.
C20_HungCallBlocksEvent ==
  /\ Terminates
  /\ Blocked
  /\ [](\A e \in Events :
          hung[e] =>
            /\ st[e] = "try" => FallbackCalls(trace[e]) = {}
            /\ st[e] = "catch" => Cardinality(FallbackCalls(trace[e])) = 1)

\* a call of the try block of one event hangs, and another event has ended
\* with reply #2 posted
C20_Witness ==
  \E e, f \in Events :
    /\ e # f
    /\ hung[e] /\ st[e] = "try"
    /\ st[f] = "done" /\ Posted(f, "reply2")

-----------------------------------------------------------------------------
(* The nickname #handleComment is called with *)

\* the ends of the values: nothing, or one character
Edges == {<<>>} \cup {<<c>> : c \in NickChars}

\* The comments asking for a bundle: the label in one of its forms, and a
\* value that is empty, short or around 32 characters long, between ends of
\* white space, forbidden characters and letters.
Requests ==
  {prefix \o head \o Fill(n) \o tail :
     prefix \in {<<"n", "i", "k", ":">>, <<"N", "i", "k", ":", " ">>,
                 <<"n", "i", "k", " ">>},
     head \in Edges,
     n \in {0, 1} \cup ((MaxNickLen - 1)..(MaxNickLen + 1)),
     tail \in Edges}

RequestContexts(e) ==
  [objectId : ObjectIds, text : Requests \cup Texts, ownerId : {OwnerId},
   id : {e}]

\* a comment asking for a bundle arrives
ArriveRequest(e) == \E c \in RequestContexts(e) : Deliver(e, c)

NextRequest == \E e \in Delivered : ArriveRequest(e)

SpecRequest == Init /\ [][NextRequest]_vars

\* #handleComment has been called for event e
PipelineStarted(e) == st[e] = "try" \/ trace[e] # <<>>

\* C21: the nickname #handleComment is called with is not empty, is at most
\* 32 characters long, holds no forbidden character and does not begin with
\* white space; a comment on the watched post whose value is empty, or empty
\* once sanitized, does not start #handleComment, and its handler ends
\* without a reply, a call or a step left to take.
C21_PipelineNickname ==
  \A e \in Events :
    /\ PipelineStarted(e) =>
         LET nickname == extracted[e][1]
         IN  /\ nickname # null
             /\ 1 <= Len(nickname) /\ Len(nickname) <= 32
             /\ \A i \in 1..Len(nickname) : nickname[i] \notin Forbidden
             /\ nickname[1] \notin Whitespace
    /\ st[e] # "idle" /\ TargetsWatchedPost(ctx[e], config) =>
         LET m == FirstMatch(ctx[e].text)
             empty == \/ m = <<>>
                      \/ Trim(m[1]) = <<>>
                      \/ Trim(RemoveForbidden(m[1])) = <<>>
         IN  empty =>
               /\ ~PipelineStarted(e)
               /\ st[e] = "done"
               /\ posted[e] = <<>>
               /\ outstanding[e] = {}
               /\ ~ENABLED Step(e)

\* the pipeline has been started with a value that held a forbidden
\* character and was longer than 32 characters, cut to 32
C21_Witness ==
  \E e \in Events :
    /\ PipelineStarted(e)
    /\ Len(ctx[e].text) > 36
    /\ \E i \in 1..Len(ctx[e].text) : ctx[e].text[i] \in Forbidden
    /\ Len(extracted[e][1]) = 32

=============================================================================
